---- MODULE Spec2Model ----
(***************************************************************************)
(* State-machine model of naplib.encoding.TRF (src/naplib/encoding/trf.py) *)
(* One TRF instance is modelled.  Python attributes that exist only after  *)
(* fit() are modelled by the DOMAIN of the record `self`:                  *)
(*     hasattr(self, a)  ==  a \in DOMAIN self.                            *)
(* Times are kept in units of 1/TDen sample (sfreq = 1), fractions p in    *)
(* units of 1/PDen.  Array contents are abstracted to small tags; array    *)
(* shapes and time lengths are kept exactly.  The caller also holds a      *)
(* trial container (naplib.OutStruct) with one predictor and one target    *)
(* field; `outstruct` is the content of its target field, channel by       *)
(* channel.                                                                *)
(***************************************************************************)
EXTENDS Integers, Sequences, FiniteSets, TLC

VARIABLES self, result, everFit, outstruct

vars == <<self, result, everFit, outstruct>>

\* ------------------------------------------------------------------ bounds
MaxTrials == 2       \* most trials in one call
MaxOut == 2          \* most output channels of a target
LenUnit == 2         \* short trial length; long trials are 3 * LenUnit
NFeat == 2           \* predictor features per sample
NFeatY == 3          \* output features per channel of a 3-D target

TDen == 2            \* tmin, tmax are multiples of 1/TDen sample (sfreq = 1)
PDen == 4            \* xval_test_portion is a multiple of 1/PDen
MaxTapers == 2       \* most fits from the container's fields between two loads of it

\* content tags of an output channel: finite contents, and the tag of a
\* channel that holds a non-finite value
FiniteTags == {0, 1}
NaN == Cardinality(FiniteTags)

\* (tmin, tmax) offered to the constructor, in units of 1/TDen sample: a
\* window between two half-way times, a window between two whole samples,
\* an empty window and a reversed one
TimePairs == {<<1, 3>>, <<-2, 6>>, <<2, 2>>, <<7, 2>>}
PNums == -1..(PDen - 1)
TimeLens == {LenUnit, 3 * LenUnit}
Tags == FiniteTags \cup {NaN}

\* y[:k] = np.multiply(y[:k], hamming_start) and the like at the end, lines
\* 165-166, on an array of content c: the content the array holds afterwards.
\* The window scales the outermost samples by 0.08, so a finite content
\* becomes another one, which is none of the contents a caller starts from.
hamming_taper(c) == IF c = NaN THEN NaN ELSE c + NaN + 1

\* how many times the window has been laid on a finite content
tapers(c) == c \div (NaN + 1)

\* ------------------------------------------------------------- arithmetic
Abs(n) == IF n < 0 THEN -n ELSE n

Min(a, b) == IF a < b THEN a ELSE b

\* floor(n/d), d > 0
Floor(n, d) == n \div d

\* int(n/d): truncation toward zero, d # 0
Trunc(n, d) ==
  LET q == Abs(n) \div Abs(d)
  IN  IF (n < 0) = (d < 0) THEN q ELSE -q

\* Python round(n/d) for d > 0: nearest integer, ties to the even one
RoundHalfEven(n, d) ==
  LET f == Floor(n, d)
      r2 == 2 * (n - f * d)
  IN  IF r2 < d THEN f
      ELSE IF r2 > d THEN f + 1
      ELSE IF f % 2 = 0 THEN f ELSE f + 1

RECURSIVE SumSeq(_)
SumSeq(s) == IF s = <<>> THEN 0 ELSE Head(s) + SumSeq(Tail(s))

RECURSIVE Gcd(_, _)
Gcd(a, b) == IF b = 0 THEN Abs(a) ELSE Gcd(b, a % b)

\* a rational n/d in lowest terms with d > 0
Rat(n, d) ==
  LET g == Gcd(Abs(n), Abs(d))
      s == IF d < 0 THEN -1 ELSE 1
  IN  [n |-> s * (n \div g), d |-> s * (d \div g)]

RAdd(a, b) == Rat(a.n * b.d + b.n * a.d, a.d * b.d)
RMul(a, b) == Rat(a.n * b.n, a.d * b.d)
RDiv(a, b) == Rat(a.n * b.d, a.d * b.n)

\* --------------------------------------------------------------- outcomes
\* An exception is identified by its Python type and by the source line
\* ("file:line") that raises it.
Raise(exc, at) == [status |-> "raise", exc |-> exc, at |-> at]
Return(v) == [status |-> "ok", value |-> v]
Idle == [status |-> "idle"]

IsRaise(r) == r.status = "raise"
IsOk(r) == r.status = "ok"

\* The three "must call fit() first" guards.
StateErrorLines == {"trf.py:270", "trf.py:310", "trf.py:365"}
IsStateError(r) == IsRaise(r) /\ r.exc = "ValueError" /\ r.at \in StateErrorLines

NoInstance == [none |-> TRUE]
hasattr(o, a) == a \in DOMAIN o
setattr(o, a, v) == (a :> v) @@ o

\* ------------------------------------------------------------ constructor
\* The alpha argument: None, a scalar, or a list.
AlphaNone == [kind |-> "none"]
AlphaScalar(a) == [kind |-> "scalar", x |-> a]
AlphaList(l) == [kind |-> "list", v |-> l]
AlphaArgs == {AlphaNone, AlphaScalar(1), AlphaList(<<0>>), AlphaList(<<0, 1>>)}

\* alpha = [round(x, 2) for x in np.logspace(2, 9, 8)]
DefaultAlpha == [i \in 1..8 |-> 10 ^ (i + 1)]

CtorArg(tp, a, p, fi) ==
  [tmin |-> tp[1], tmax |-> tp[2], alpha |-> a, xval_test_portion |-> p,
   fit_intercept |-> fi]

\* every constructor call of the model
AllCtorArgs ==
  { CtorArg(tp, a, p, fi) : tp \in TimePairs, a \in AlphaArgs, p \in PNums, fi \in BOOLEAN }

\* the constructor calls whose instances are then fitted and used: a
\* multi-alpha list with fractions below, at and above 0, and a scalar alpha,
\* for which the fraction is never read, with the fractions 1/PDen and above 0.5
CtorArgs ==
  { c \in AllCtorArgs :
      /\ 2 * c.xval_test_portion # PDen
      /\ \/ c.alpha = AlphaList(<<0, 1>>)
         \/ c.alpha = AlphaScalar(1) /\ (c.xval_test_portion = 1 \/ 2 * c.xval_test_portion > PDen)
         \/ c.alpha = AlphaList(<<0>>) /\ c.xval_test_portion = 1 }

\* self.alpha as stored by line 85
StoredAlpha(a) ==
  IF a.kind = "none" THEN DefaultAlpha
  ELSE IF a.kind = "scalar" THEN <<a.x>>
  ELSE a.v

\* the guard of line 75
bad_times_strict(a) == a.tmin > a.tmax

bad_times(a) == a.tmin >= a.tmax

\* the guard of line 92
bad_portion_from_one(alpha, p) == Len(alpha) >= 1 /\ 2 * p > PDen

bad_portion(alpha, p) == Len(alpha) > 1 /\ 2 * p > PDen

\* TRF.__init__: the outcome, and the instance when one is returned.
TRF_init(a) ==
  IF bad_times(a) THEN [out |-> Raise("ValueError", "trf.py:76"), obj |-> NoInstance]
  ELSE
    LET alpha == StoredAlpha(a.alpha)
        obj == [tmin |-> a.tmin, tmax |-> a.tmax, alpha |-> alpha,
                xval_test_portion |-> a.xval_test_portion,
                fit_intercept |-> a.fit_intercept]
    IN  IF bad_portion(alpha, a.xval_test_portion)
        THEN [out |-> Raise("ValueError", "trf.py:93"), obj |-> NoInstance]
        ELSE [out |-> Return("instance"), obj |-> obj]

\* int(round(self.tmin * self.sfreq))
smin(o) == RoundHalfEven(o.tmin, TDen)

\* int(round(self.tmax * self.sfreq)) + 1
smax_from_window(o) == smin(o) + RoundHalfEven(o.tmax - o.tmin, TDen) + 1

smax(o) == RoundHalfEven(o.tmax, TDen) + 1

\* the number of delays, len(_times_to_delays(tmin, tmax, sfreq))
n_delays(o) == smax(o) - smin(o)

\* ------------------------------------------------------------------- data
\* A call's data: predictor trials X (time lengths; every sample has NFeat
\* features), target trials y (time length and number of dimensions), and
\* the content tag of each output channel of the target.  `src` tells how
\* the data is handed over: directly as lists, or as field names of a trial
\* container ("badfield": a name the container does not hold).  `feat` tells
\* how the NFeat features of the predictor stand to each other:
\* "independent" (their covariance over the delays is regular), "duplicated"
\* (the last feature repeats the first) or "zero" (the last feature is 0
\* throughout).
Trial(T, nd) == [T |-> T, nd |-> nd]

Data(src, xl, yl, nds, ch) ==
  [src |-> src, X |-> xl, y |-> [i \in 1..Len(yl) |-> Trial(yl[i], nds[i])],
   ch |-> ch, feat |-> "independent"]

\* trial lengths of a call: up to MaxTrials trials, at most one of them short
LenLists ==
  UNION { { l \in [1..n -> TimeLens] : Cardinality({i \in 1..n : l[i] = LenUnit}) <= 1 }
          : n \in 1..MaxTrials }

\* channel contents of a target: up to MaxOut channels, at most one of them
\* of another content than 0
ChLists ==
  UNION { { c \in [1..n -> Tags] : Cardinality({k \in 1..n : c[k] # 0}) <= 1 }
          : n \in 1..MaxOut }

\* as many predictor trials as target trials, trial by trial of equal length
\* and all targets of the same number of dimensions
UniformData ==
  UNION { { Data("list", l, l, [i \in 1..Len(l) |-> nd], ch) : nd \in {2, 3}, ch \in ChLists }
          : l \in LenLists }

\* long trials, one target trial of another number of dimensions
MixedData ==
  UNION { { Data("list", l, l, [i \in 1..Len(l) |-> IF i = j THEN 5 - nd ELSE nd], <<0>>) :
              nd \in {2, 3}, j \in 1..Len(l) }
          : l \in {m \in LenLists : Len(m) >= 2 /\ \A i \in 1..Len(m) : m[i] # LenUnit} }

RegularData == UniformData \cup MixedData

\* one predictor trial more or less than target trials
MismatchData ==
  { Data("list", xl, yl, <<nd, nd2>>, <<0>>) :
      xl \in {<<3 * LenUnit>>}, yl \in {<<3 * LenUnit, 3 * LenUnit>>},
      nd \in {2, 3}, nd2 \in {2, 3} }
  \cup
  { Data("list", xl, yl, nds, <<0>>) :
      xl \in {<<3 * LenUnit, 3 * LenUnit>>}, yl \in {<<3 * LenUnit>>},
      nds \in {<<2>>, <<3>>} }

EmptyData == Data("list", <<>>, <<>>, <<>>, <<0>>)
BadFieldData == Data("badfield", <<LenUnit>>, <<LenUnit>>, <<2>>, <<0>>)
FieldData == Data("field", <<3 * LenUnit>>, <<3 * LenUnit>>, <<2>>, <<0>>)

\* predictors whose feature covariance is singular: the fixtures X2 and X3 of
\* tests/encoding/test_trf.py
SingularData ==
  { [Data("list", <<3 * LenUnit>>, <<3 * LenUnit>>, <<2>>, <<0>>) EXCEPT !.feat = f] :
      f \in {"duplicated", "zero"} }

\* data handed over directly, and a field name the container does not hold
FitData ==
  RegularData \cup MismatchData \cup SingularData \cup {EmptyData, BadFieldData}

\* the fields of the container, and the same trials handed over as lists
ContainerData == {FieldData, [FieldData EXCEPT !.src = "list"]}

\* OutStruct.get_field for the field names of a call: the arrays the
\* container holds, themselves; os is the content of its target field.
\* Data handed over directly is what it is.
get_field(d, os) == IF d.src = "field" THEN [d EXCEPT !.ch = os] ELSE d

\* The target arrays the caller holds, channel by channel, after a fit()
\* whose taper loop (lines 164-166) has gone through n whole trials.  Line 150 deep-copies the
\* arguments: lists of arrays are copied, array by array, and the loop works
\* on the copies; a field name is copied as a string, and the loop works on
\* the arrays of the container.
caller_y_private(d, n) == d.ch

caller_y(d, n) ==
  IF d.src = "field" /\ n >= 1
  THEN [k \in 1..Len(d.ch) |-> hamming_taper(d.ch[k])]
  ELSE d.ch

\* _parse_outstruct_args(outstruct, X, y): resolves field names through
\* OutStruct.get_field and hands back one list of trials per argument.
parse_no_count_check(d) ==
  IF d.src = "badfield" THEN Raise("KeyError", "out_struct.py:86")
  ELSE Return(d)

parse_outstruct_args(d) ==
  IF d.src = "badfield" THEN Raise("KeyError", "out_struct.py:86")
  ELSE IF Len(d.X) # Len(d.y) THEN Raise("ValueError", "utils.py")
  ELSE Return(d)

\* --------------------------------------------------------- cross-validation
\* _xval_time_splits(data, test_portion) for data of T samples: the folds it
\* yields, each the test block [start, stop); the train set of a fold is
\* np.delete(data, slice(start, stop)).  The generator runs when the zip of
\* line 205 first asks it for a fold.
\* the sample indices a, a + 1, ..., b - 1, in order
Range(a, b) == [q \in 1..(IF b > a THEN b - a ELSE 0) |-> a + q - 1]

\* lines 422-426 for one block of data of T samples (indices 0..T-1):
\* test is data[start:stop], train is np.delete(data, slice(start, stop))
xval_fold_train_after(T, start, stop) ==
  [start |-> start, stop |-> stop,
   test |-> Range(start, Min(stop, T)),
   train |-> Range(Min(stop, T), T)]

xval_fold(T, start, stop) ==
  [start |-> start, stop |-> stop,
   test |-> Range(start, Min(stop, T)),
   train |-> Range(0, Min(start, T)) \o Range(Min(stop, T), T)]

\* a generator that also yields the short block left at the end
xval_time_splits_ceil(T, p) ==
  LET win_size == Floor(T * p, PDen)
  IN  IF win_size = 0
      THEN IF T = 0 THEN Raise("ValueError", "trf.py:417")
           ELSE Raise("OverflowError", "trf.py:417")
      ELSE
        LET n == IF win_size > 0 THEN (T + win_size - 1) \div win_size ELSE 0
        IN  Return([j \in 1..n |->
                      xval_fold(T, (j - 1) * win_size, (j - 1) * win_size + win_size)])

xval_time_splits(T, p) ==
  LET win_size == Floor(T * p, PDen)
  IN  IF win_size = 0
      THEN \* (T - 0) / 0 is inf (nan for T = 0), which int() refuses
           IF T = 0 THEN Raise("ValueError", "trf.py:417")
           ELSE Raise("OverflowError", "trf.py:417")
      ELSE
        LET num_chunks == Trunc((T - win_size) + win_size, win_size)
            stop == num_chunks * win_size
            \* range(0, stop, win_size)
            n == IF win_size > 0 /\ stop > 0 THEN num_chunks ELSE 0
        IN  Return([j \in 1..n |->
                      xval_fold(T, (j - 1) * win_size, (j - 1) * win_size + win_size)])

\* The held-out score of candidate ai on fold f for a channel of content
\* tag (rf.predict and _score_predictions of lines 243-244): a fixed table
\* standing for the numerical result.
CvScore(tag, f, ai) == (tag * (ai + f)) % 5

RECURSIVE SumScores(_, _, _)
SumScores(tag, nf, ai) ==
  IF nf = 0 THEN 0 ELSE CvScore(tag, nf, ai) + SumScores(tag, nf - 1, ai)

\* np.argmax: the first index holding the maximum
ArgMaxLast(v) ==
  CHOOSE i \in 1..Len(v) :
    /\ \A j \in 1..Len(v) : v[j] <= v[i]
    /\ \A j \in (i + 1)..Len(v) : v[j] < v[i]

ArgMax(v) ==
  CHOOSE i \in 1..Len(v) :
    /\ \A j \in 1..Len(v) : v[j] <= v[i]
    /\ \A j \in 1..(i - 1) : v[j] < v[i]

\* _print_alpha_xvals(self.alpha, mean_scores) after nf folds: with fewer
\* than two folds scores.mean(0) is a scalar, which zip() of line 407 refuses
print_alpha_xvals_any(nf) == Return("printed")

print_alpha_xvals(nf) ==
  IF nf <= 1 THEN Raise("TypeError", "trf.py:407") ELSE Return("printed")

\* What a fit() does, step by step, is kept as a list of events in program
\* order.  An event tells its kind, the channel, the fold and the alpha
\* index it belongs to (0 where there is none), the covariance statistics it
\* writes or reads, named by the channel and fold whose train set they were
\* computed from, the test block [start, stop) of its fold, and a value (a
\* score, or the alpha of a refit).
\*   "splits": the fold generator is started             (lines 203-205)
\*   "cov":    _compute_corrs on the fold's train set     (line 221)
\*   "solve":  _fit_corrs for one alpha                   (line 230)
\*   "score":  rf.predict on the test block, scored       (lines 243-244)
\*   "refit":  rf.fit on all the data with one alpha      (lines 258-259)
Ev(ev, ch, f, ai, cov, blk, v) ==
  [ev |-> ev, ch |-> ch, f |-> f, ai |-> ai, cov |-> cov, blk |-> blk, v |-> v]

NoCov == <<0, 0>>
NoBlk == <<0, 0>>

\* coef_ = coef_[:, :-1] of line 232, on the array of shape (targets,
\* features, delays) that _fit_corrs hands back: the shape of the candidate
\* coefficients.  The slice runs over the second axis.
cv_coef_shape(o) ==
  <<IF o.ndim_y_ = 2 THEN 1 ELSE NFeatY, NFeat - 1, n_delays(o)>>

\* lines 237-240: the intercept given to the candidate solved from the
\* statistics cov_ (which hold the centering offsets).  self.coef_ is the
\* property of lines 267-278: the coefficients of the channels stored so far.
cv_intercept(o, cov_) ==
  IF o.fit_intercept
  THEN IF o.models_ = <<>> THEN Raise("ValueError", "trf.py:278")
       ELSE Return([offsets |-> cov_, coef |-> "self.coef_"])
  ELSE Return([offsets |-> NoCov, coef |-> "none"])

\* the alpha loop of lines 228-244 in fold f of channel k of instance o;
\* cov_ is the local variable set by line 221.  A score event tells also the
\* candidate that rf.predict of line 243 works with: the shape of its
\* coefficients and its intercept.
alpha_events(k, f, fold, cov_, tag, o) ==
  [e \in 1..(2 * Len(o.alpha)) |->
     LET ai == (e + 1) \div 2
     IN  IF e % 2 = 1
         THEN Ev("solve", k, f, ai, cov_, <<fold.start, fold.stop>>, 0)
         ELSE [coef_shape |-> cv_coef_shape(o), intercept |-> cv_intercept(o, cov_).value]
              @@ Ev("score", k, f, ai, cov_, <<fold.start, fold.stop>>, CvScore(tag, f, ai))]

\* one turn of the fold loop, lines 205-246
\* statistics computed anew before every solve
fold_events_cov_per_alpha(k, f, fold, tag, o) ==
  LET ae == alpha_events(k, f, fold, <<k, f>>, tag, o)
  IN  [e \in 1..(3 * Len(o.alpha)) |->
         IF e % 3 = 1 THEN Ev("cov", k, f, 0, <<k, f>>, <<fold.start, fold.stop>>, 0)
         ELSE ae[e - 1 - (e - 1) \div 3]]

fold_events(k, f, fold, tag, o) ==
  LET cov_ == <<k, f>>
  IN  <<Ev("cov", k, f, 0, cov_, <<fold.start, fold.stop>>, 0)>>
      \o alpha_events(k, f, fold, cov_, tag, o)

\* the fold loop from fold f on
RECURSIVE cv_events(_, _, _, _, _)
cv_events(k, folds, f, tag, o) ==
  IF f > Len(folds) THEN <<>>
  ELSE fold_events(k, f, folds[f], tag, o) \o cv_events(k, folds, f + 1, tag, o)

\* lines 247-253 after nf folds: the index of the best alpha
\* a selection that keeps to the alpha of the first channel fitted
choose_alpha_of_first_channel(o, tag, nf) ==
  IF IsRaise(print_alpha_xvals(nf)) THEN print_alpha_xvals(nf)
  ELSE IF o.models_ # <<>>
  THEN Return(CHOOSE ai \in 1..Len(o.alpha) : o.alpha[ai] = o.models_[1].alpha)
  ELSE Return(ArgMax([ai \in 1..Len(o.alpha) |-> SumScores(tag, nf, ai)]))

choose_alpha(o, tag, nf) ==
  IF IsRaise(print_alpha_xvals(nf)) THEN print_alpha_xvals(nf)
  ELSE Return(ArgMax([ai \in 1..Len(o.alpha) |-> SumScores(tag, nf, ai)]))

\* Lines 205-254 for channel k, given what the fold generator hands over:
\* the index of the chosen alpha, or the exception that ends fit(), and the
\* events.  `o` is the instance as the loop finds it.
CrossValidateFolds(o, tag, k, gen) ==
  IF IsRaise(gen)
  THEN [self |-> o, out |-> gen, log |-> <<Ev("splits", k, 0, 0, NoCov, NoBlk, 0)>>]
  ELSE IF gen.value = <<>>
  THEN [self |-> o, out |-> choose_alpha(o, tag, 0),
        log |-> <<Ev("splits", k, 0, 0, NoCov, NoBlk, 0)>>]
  ELSE IF tag = NaN
  THEN \* line 210 has set estimator_; _fit_corrs of the first fold:
       \* scipy.linalg.solve rejects non-finite input
       [self |-> setattr(o, "estimator_", "TimeDelayingRidge"),
        out |-> Raise("ValueError", "trf.py:230"),
        log |-> <<Ev("splits", k, 0, 0, NoCov, NoBlk, 0)>>
                \o <<Ev("cov", k, 1, 0, <<k, 1>>, <<gen.value[1].start, gen.value[1].stop>>, 0),
                     Ev("solve", k, 1, 1, <<k, 1>>, <<gen.value[1].start, gen.value[1].stop>>, 0)>>]
  ELSE IF IsRaise(cv_intercept(o, <<k, 1>>))
  THEN \* line 238 reads self.coef_, which concatenates no model; this ends
       \* every fit() that cross-validates with fit_intercept in its first
       \* channel, so no later channel comes here with fit_intercept set
       [self |-> setattr(o, "estimator_", "TimeDelayingRidge"),
        out |-> cv_intercept(o, <<k, 1>>),
        log |-> <<Ev("splits", k, 0, 0, NoCov, NoBlk, 0)>>
                \o <<Ev("cov", k, 1, 0, <<k, 1>>, <<gen.value[1].start, gen.value[1].stop>>, 0),
                     Ev("solve", k, 1, 1, <<k, 1>>, <<gen.value[1].start, gen.value[1].stop>>, 0)>>]
  ELSE [self |-> setattr(o, "estimator_", "TimeDelayingRidge"),
        out |-> choose_alpha(o, tag, Len(gen.value)),
        log |-> <<Ev("splits", k, 0, 0, NoCov, NoBlk, 0)>>
                \o cv_events(k, gen.value, 1, tag, o)]

\* Lines 196-254 for channel k of data of T samples
CrossValidate(o, T, tag, k) ==
  CrossValidateFolds(o, tag, k, xval_time_splits(T, o.xval_test_portion))

\* -------------------------------------------------------------------- fit
\* _times_to_delays(tmin, tmax, sfreq)
times_to_delays(o) == [i \in 1..n_delays(o) |-> smin(o) + i - 1]

\* _delays_to_slice(delays): slice(start, stop), None written <<>>
delays_to_slice(dl) ==
  [start |-> IF dl[Len(dl)] < 0 THEN <<>> ELSE <<dl[Len(dl)]>>,
   stop |-> IF dl[1] >= 0 THEN <<>> ELSE <<dl[1]>>]

\* length of each half of the Hamming taper, line 158
taper_len_delays(o) == n_delays(o)

taper_len(o) == Trunc(o.tmax - o.tmin, TDen)

\* lines 164-166 on the first n target trials: the samples [from, to) of
\* each trial that are multiplied by the rising and by the falling half, and
\* the samples of the trial's predictor that are written (none: line 152
\* only concatenates)
\* a taper laid on the concatenated target: on the start of the first trial
\* and on the end of the last
taper_concatenated(o, d, n) ==
  [i \in 1..n |->
     [start |-> [from |-> 0, to |-> IF i = 1 THEN taper_len(o) ELSE 0],
      end |-> [from |-> IF i = Len(d.y) THEN d.y[i].T - taper_len(o) ELSE d.y[i].T,
               to |-> d.y[i].T],
      x |-> [from |-> 0, to |-> 0]]]

taper_trials(o, d, n) ==
  [i \in 1..n |-> [start |-> [from |-> 0, to |-> taper_len(o)],
                   end |-> [from |-> d.y[i].T - taper_len(o), to |-> d.y[i].T],
                   x |-> [from |-> 0, to |-> 0]]]

\* np.concatenate(X_, axis=0) of line 152: the predictor of the channel loop
concat_X(d) == [T |-> SumSeq(d.X), feat |-> d.feat]

\* whether the matrix x_xt + alpha * reg that _fit_corrs solves is singular:
\* without ridge (alpha = 0), for a feature that repeats another or is 0
singular_cov(X, alpha) == alpha = 0 /\ X.feat # "independent"

\* rf.fit(X_, y_thistarget) and the trim of lines 261-262: the model kept
\* for one channel.  ReceptiveField.fit shapes coef_ as (targets, predictor
\* features, delays), and the one channel handed to it has one target for
\* 2-D targets, NFeatY targets (its output features) for 3-D targets.
\* X is the concatenated predictor.  `sol` tells which solution of the
\* normal equations the coefficients are: the one there is, or, for a
\* singular matrix, the least-squares solution of least norm (half of h on
\* each of two equal features, h and 0 on a feature and an all-zero one, as
\* test_2D_input_1D_output_trf and test_2D_input_1D_output_trf_withzeros
\* expect).
rf_fit_untrimmed(o, X, tag, alpha) ==
  IF tag = NaN THEN Raise("ValueError", "trf.py:259")
  ELSE Return([alpha |-> alpha, y |-> tag,
               sol |-> IF singular_cov(X, alpha) THEN "least_norm" ELSE "unique",
               coef_shape |-> <<IF o.ndim_y_ = 2 THEN 1 ELSE NFeatY, NFeat, n_delays(o)>>])

\* a solver that gives up on a singular matrix
rf_fit_no_fallback(o, X, tag, alpha) ==
  IF tag = NaN THEN Raise("ValueError", "trf.py:259")
  ELSE IF singular_cov(X, alpha) THEN Raise("LinAlgError", "trf.py:259")
  ELSE Return([alpha |-> alpha, y |-> tag, sol |-> "unique",
               coef_shape |-> <<IF o.ndim_y_ = 2 THEN 1 ELSE NFeatY, NFeat, n_delays(o) - 1>>])

rf_fit(o, X, tag, alpha) ==
  IF tag = NaN THEN Raise("ValueError", "trf.py:259")
  ELSE Return([alpha |-> alpha, y |-> tag,
               sol |-> IF singular_cov(X, alpha) THEN "least_norm" ELSE "unique",
               coef_shape |-> <<IF o.ndim_y_ = 2 THEN 1 ELSE NFeatY, NFeat, n_delays(o) - 1>>])

\* the test of line 196
needs_xval_always(o) == Len(o.alpha) >= 1

needs_xval(o) == Len(o.alpha) > 1

\* the channel loop of lines 186-263, from channel k on; log holds the
\* events of the channels before k
RECURSIVE FitChannels(_, _, _, _, _)

\* lines 261-263, given what rf.fit has handed back
StoreChannel(o, X, ch, k, log, rf) ==
  IF IsRaise(rf) THEN [self |-> o, out |-> rf, log |-> log]
  ELSE FitChannels(setattr(o, "models_", Append(o.models_, rf.value)), X, ch, k + 1, log)

\* lines 256-263, given the outcome cv of the alpha selection
RefitChannel(o, X, ch, k, log, cv) ==
  IF IsRaise(cv.out) THEN [self |-> cv.self, out |-> cv.out, log |-> log \o cv.log]
  ELSE StoreChannel(cv.self, X, ch, k,
                    log \o cv.log
                    \o <<Ev("refit", k, 0, cv.out.value, NoCov, NoBlk, o.alpha[cv.out.value])>>,
                    rf_fit(o, X, ch[k], o.alpha[cv.out.value]))

FitChannels(o, X, ch, k, log) ==
  IF k > Len(ch) THEN [self |-> o, out |-> Return("self"), log |-> log]
  ELSE RefitChannel(o, X, ch, k, log,
                    IF needs_xval(o) THEN CrossValidate(o, X.T, ch[k], k)
                    ELSE [self |-> o, out |-> Return(1), log |-> <<>>])

\* self.models_ = [] of line 177
keep_models(o) == IF hasattr(o, "models_") THEN o ELSE setattr(o, "models_", <<>>)

reset_models(o) == setattr(o, "models_", <<>>)

\* TRF.fit: the instance afterwards and the outcome of the call
\* `taper` tells which samples of which target trials the call has tapered,
\* `log` what the channel loop has done.
fit(o, d) ==
  LET pr == parse_outstruct_args(d)
      k == taper_len(o)
      none == <<>>
  IN  IF IsRaise(pr) THEN [self |-> o, out |-> pr, taper |-> none, log |-> none]
      ELSE IF d.X = <<>>
      THEN [self |-> o, out |-> Raise("ValueError", "trf.py:152"), taper |-> none, log |-> none]
      ELSE IF d.y = <<>>
      THEN [self |-> o, out |-> Raise("IndexError", "trf.py:154"), taper |-> none, log |-> none]
      ELSE IF \E i \in 1..Len(d.y) : d.y[i].T < k
      THEN \* the trials before the first too short one have been tapered
           LET j == CHOOSE i \in 1..Len(d.y) :
                      d.y[i].T < k /\ \A h \in 1..(i - 1) : d.y[h].T >= k
           IN  [self |-> o, out |-> Raise("ValueError", "trf.py:165"),
                taper |-> taper_trials(o, d, j - 1), log |-> none]
      ELSE IF k = 0
      THEN [self |-> o, out |-> Raise("ValueError", "trf.py:166"), taper |-> none, log |-> none]
      ELSE IF \E i \in 1..Len(d.y) : d.y[i].nd # d.y[1].nd
      THEN [self |-> o, out |-> Raise("ValueError", "trf.py:169"),
            taper |-> taper_trials(o, d, Len(d.y)), log |-> none]
      ELSE
        LET o1 == setattr(o, "ndim_y_", d.y[1].nd)
            o2 == reset_models(o1)
            o3 == setattr(o2, "delays_", times_to_delays(o))
            o4 == setattr(o3, "valid_samples_", delays_to_slice(times_to_delays(o)))
        IN  [taper |-> taper_trials(o, d, Len(d.y))]
            @@ FitChannels(o4, concat_X(d), d.ch, 1, none)

\* ---------------------------------------------------------------- predict
\* shape of y_pred[ii] for a trial of T samples, lines 316-324
pred_shape_flat(o, T) == <<T, Len(o.models_)>>

pred_shape(o, T) ==
  IF o.ndim_y_ = 2 THEN <<T, Len(o.models_)>>
  ELSE <<T, Len(o.models_), NFeatY>>

\* what TRF.predict hands back for predictor trials of time lengths xl
predict_out(o, xl) ==
  IF ~hasattr(o, "models_") THEN Raise("ValueError", "trf.py:310")
  ELSE IF xl # <<>> /\ o.models_ = <<>>
  THEN \* np.concatenate of the empty y_pred[0]
       Raise("ValueError", "trf.py:324")
  ELSE Return([i \in 1..Len(xl) |-> pred_shape(o, xl[i])])

\* TRF.predict: the instance afterwards and the outcome of the call
predict_consuming(o, xl) ==
  [self |-> IF hasattr(o, "models_") THEN setattr(o, "models_", <<>>) ELSE o,
   out |-> predict_out(o, xl)]

predict(o, xl) == [self |-> o, out |-> predict_out(o, xl)]

\* ------------------------------------------------------------------ score
\* scorer(y_pred, y_true) of line 399 for channel k on trial i: a fixed
\* table standing for the numerical result.
TrialScore(m, d, k, i) == (m.y + d.ch[k] + d.X[i] + i) % 3

\* weights of lines 376-380
score_weights_uniform(d, weight_trial_duration) ==
  [i \in 1..Len(d.X) |-> Rat(1, 1)]

score_weights(d, weight_trial_duration) ==
  [i \in 1..Len(d.X) |->
     IF weight_trial_duration THEN Rat(d.X[i], SumSeq(d.X)) ELSE Rat(1, 1)]

RECURSIVE RSum(_)
RSum(s) == IF s = <<>> THEN Rat(0, 1) ELSE RAdd(Head(s), RSum(Tail(s)))

\* np.average(a, weights=w) of one row
average(a, w) ==
  RDiv(RSum([i \in 1..Len(a) |-> RMul(w[i], Rat(a[i], 1))]), RSum(w))

\* the test of line 371 on trial i
ndim_differs_first_only(o, d, i) == i = 1 /\ d.y[i].nd # o.ndim_y_

ndim_differs(o, d, i) == d.y[i].nd # o.ndim_y_

\* TRF._score_predictions on n predicted trials
score_predictions(o, d, n, weights) ==
  IF n = 0 THEN Raise("ValueError", "trf.py:400")
  ELSE IF d.y[1].nd # o.ndim_y_ THEN Raise("AssertionError", "trf.py:392")
  ELSE IF Len(o.models_) # Len(d.ch) THEN Raise("AssertionError", "trf.py:398")
  ELSE IF \E i \in 1..n : d.y[i].nd # o.ndim_y_ THEN Raise("AssertionError", "trf.py:392")
  ELSE IF Len(weights) # n THEN Raise("ValueError", "trf.py:402")
  ELSE Return([k \in 1..Len(o.models_) |->
                 average([i \in 1..n |-> TrialScore(o.models_[k], d, k, i)], weights)])

\* what TRF.score hands back
score_out(o, d, weight_trial_duration) ==
  LET pr == parse_outstruct_args(d)
      \* zip(X_, y_)
      n == Min(Len(d.X), Len(d.y))
  IN  IF ~hasattr(o, "models_") THEN Raise("ValueError", "trf.py:365")
      ELSE IF IsRaise(pr) THEN pr
      ELSE IF n >= 1 /\ o.models_ = <<>>
      THEN \* the first turn of the loop ends the call
           IF ndim_differs(o, d, 1) THEN Raise("ValueError", "trf.py:372")
           ELSE predict_out(o, <<d.X[1]>>)
      ELSE IF \E i \in 1..n : ndim_differs(o, d, i) THEN Raise("ValueError", "trf.py:372")
      ELSE score_predictions(o, d, n, score_weights(d, weight_trial_duration))

\* TRF.score: the instance afterwards and the outcome of the call
score(o, d, weight_trial_duration) ==
  [self |-> o, out |-> score_out(o, d, weight_trial_duration)]

\* ------------------------------------------------------------------ coef_
\* the coef_ property: the stacked array's shape and, per slice along axis
\* 0, the filter it holds
coef_features_first(o) ==
  IF ~hasattr(o, "ndim_y_") THEN Raise("ValueError", "trf.py:270")
  ELSE IF o.models_ = <<>> THEN Raise("ValueError", "trf.py:278")
  ELSE Return([shape |-> IF o.ndim_y_ = 2
                         THEN <<Len(o.models_)>> \o Tail(o.models_[1].coef_shape)
                         ELSE <<Len(o.models_), o.models_[1].coef_shape[2],
                                o.models_[1].coef_shape[1], o.models_[1].coef_shape[3]>>,
               filters |-> [k \in 1..Len(o.models_) |->
                              [alpha |-> o.models_[k].alpha, y |-> o.models_[k].y,
                               sol |-> o.models_[k].sol]]])

coef(o) ==
  IF ~hasattr(o, "ndim_y_") THEN Raise("ValueError", "trf.py:270")
  ELSE IF o.models_ = <<>> THEN Raise("ValueError", "trf.py:278")
  ELSE Return([shape |-> IF o.ndim_y_ = 2
                         THEN <<Len(o.models_)>> \o Tail(o.models_[1].coef_shape)
                         ELSE <<Len(o.models_)>> \o o.models_[1].coef_shape,
               filters |-> [k \in 1..Len(o.models_) |->
                              [alpha |-> o.models_[k].alpha, y |-> o.models_[k].y,
                               sol |-> o.models_[k].sol]]])

\* ---------------------------------------------------------------- actions
\* data offered to score(): targets of finite content
ScoreData ==
  {d \in FitData \ SingularData : \A k \in 1..Len(d.ch) : d.ch[k] = 0}

Call(op, args, out) == [op |-> op, args |-> args, pre |-> self, out |-> out]

Init ==
  /\ self = NoInstance
  /\ result = Idle
  /\ everFit = FALSE
  /\ outstruct = FieldData.ch

\* model = TRF(...)
Construct(a) ==
  /\ self = NoInstance
  /\ result = Idle
  /\ LET r == TRF_init(a)
     IN  /\ self' = r.obj
         /\ result' = Call("init", a, r.out)
  /\ everFit' = FALSE
  /\ UNCHANGED outstruct

\* the caller's view of a fit() that ended as r
FitDone(d, r) ==
  /\ self' = r.self
  /\ result' = [taper |-> r.taper, log |-> r.log,
                held |-> caller_y(d, Len(r.taper))] @@ Call("fit", d, r.out)
  /\ everFit' = (everFit \/ IsOk(r.out))
  /\ outstruct' = IF d.src = "field" THEN caller_y(d, Len(r.taper)) ELSE outstruct

\* model.fit(X=..., y=...), or model.fit(outstruct, X='aud', y='resp') for
\* field names, which are resolved against the container as it is now; the
\* container is fitted from at most MaxTapers times between two loads
Fit(d) ==
  /\ self # NoInstance
  /\ result = Idle
  /\ d.src = "field" => \A k \in 1..Len(outstruct) : tapers(outstruct[k]) < MaxTapers
  /\ FitDone(get_field(d, outstruct), fit(self, get_field(d, outstruct)))

\* model.predict(X=...)
Predict(xl) ==
  /\ self # NoInstance
  /\ result = Idle
  /\ LET r == predict(self, xl)
     IN  /\ self' = r.self
         /\ result' = Call("predict", xl, r.out)
  /\ UNCHANGED <<everFit, outstruct>>

\* model.score(X=..., y=..., weight_trial_duration=...), field names being
\* resolved against the container as it is now
Score(d, w) ==
  /\ self # NoInstance
  /\ result = Idle
  /\ LET r == score(self, get_field(d, outstruct), w)
     IN  /\ self' = r.self
         /\ result' = [held |-> get_field(d, outstruct).ch]
                       @@ Call("score", [data |-> get_field(d, outstruct),
                                         weight_trial_duration |-> w], r.out)
  /\ UNCHANGED <<everFit, outstruct>>

\* model.coef_
Coef ==
  /\ self # NoInstance
  /\ result = Idle
  /\ result' = Call("coef_", <<>>, coef(self))
  /\ UNCHANGED <<self, everFit, outstruct>>

\* the caller takes the value, or catches the exception, and goes on
Continue ==
  /\ result # Idle
  /\ result' = Idle
  /\ UNCHANGED <<self, everFit, outstruct>>

\* the caller drops the instance and loads the container anew
Discard ==
  /\ self # NoInstance
  /\ result = Idle
  /\ self' = NoInstance
  /\ outstruct' = FieldData.ch
  /\ UNCHANGED <<result, everFit>>

Next ==
  \/ \E a \in CtorArgs : Construct(a)
  \/ \E d \in FitData : Fit(d)
  \/ \E xl \in {<<>>} \cup LenLists : Predict(xl)
  \/ \E d \in ScoreData, w \in BOOLEAN : Score(d, w)
  \/ Coef
  \/ Continue
  \/ Discard

Spec == Init /\ [][Next]_vars

\* construction alone, over every constructor call of the model
NextInit ==
  \/ \E a \in AllCtorArgs : Construct(a)
  \/ Continue
  \/ Discard

SpecInit == Init /\ [][NextInit]_vars

\* the instance fitted and scored on the caller's container, by field names,
\* and on the same trials as lists
NextField ==
  \/ \E a \in CtorArgs : Construct(a)
  \/ \E d \in ContainerData : Fit(d)
  \/ \E d \in ContainerData, w \in BOOLEAN : Score(d, w)
  \/ Coef
  \/ Continue
  \/ Discard

SpecField == Init /\ [][NextField]_vars

\* the fold generator alone, over data lengths and fractions of its own
XvalTimes == 0..(2 * MaxTrials * 3 * LenUnit)
XvalPortions == -1..(PDen + 1)

\* list(_xval_time_splits(data, test_portion)) on data of T samples
XvalSplit(T, p) ==
  /\ result = Idle
  /\ result' = Call("xval_time_splits", [T |-> T, p |-> p], xval_time_splits(T, p))
  /\ UNCHANGED <<self, everFit, outstruct>>

\* zip(X_generator, y_generator) of line 205, run to its end: gx and gy are
\* what the two generators do when they are asked for folds.  zip asks the
\* first one first and stops as soon as one of them is exhausted.
\* a loop that has taken one fold from the target generator beforehand
zip_splits_from_second(gx, gy) ==
  IF IsRaise(gx) THEN gx
  ELSE IF gx.value = <<>> THEN Return(<<>>)
  ELSE IF IsRaise(gy) THEN gy
  ELSE Return([j \in 1..Min(Len(gx.value), Len(gy.value) - 1) |->
                 [X |-> gx.value[j], y |-> gy.value[j + 1]]])

zip_splits(gx, gy) ==
  IF IsRaise(gx) THEN gx
  ELSE IF gx.value = <<>> THEN Return(<<>>)
  ELSE IF IsRaise(gy) THEN gy
  ELSE Return([j \in 1..Min(Len(gx.value), Len(gy.value)) |->
                 [X |-> gx.value[j], y |-> gy.value[j]]])

\* lines 203-205 on a predictor of Tx samples and a target of Ty samples
XvalZip(Tx, Ty, p) ==
  /\ result = Idle
  /\ result' = Call("zip_splits", [Tx |-> Tx, Ty |-> Ty, p |-> p],
                    zip_splits(xval_time_splits(Tx, p), xval_time_splits(Ty, p)))
  /\ UNCHANGED <<self, everFit, outstruct>>

NextXval ==
  \/ \E T \in XvalTimes, p \in XvalPortions : XvalSplit(T, p)
  \/ \E Tx \in XvalTimes, Ty \in XvalTimes, p \in XvalPortions : XvalZip(Tx, Ty, p)
  \/ Continue

SpecXval == Init /\ [][NextXval]_vars

\* ----------------------------------------------------------------- claims
Called(op) == result # Idle /\ result.op = op

\* C1 (as claimed): on an instance on which no fit() has completed, every
\* predict(), score() and coef_ access fails and returns no result.  Stated
\* in the weakest reading of "fails": the call raises, whatever the
\* exception, and predict() is given at least one trial.
C1_UnfitCallsFail ==
  (/\ ~everFit
   /\ \/ Called("predict") /\ result.args # <<>>
      \/ Called("score")
      \/ Called("coef_"))
    => IsRaise(result.out)

\* C2 (as claimed): after a failed fit() the instance is unfit: it holds no
\* models_ and no ndim_y_, so that predict(), score() and coef_ raise the
\* state error and nothing of a partial or earlier model can be read.
C2_FailedFitLeavesUnfit ==
  (Called("fit") /\ IsRaise(result.out))
    => (~hasattr(self, "models_") /\ ~hasattr(self, "ndim_y_"))

\* C3: after a successful fit() the derived state is that of this call alone:
\* one model per output channel of the call's targets, each fitted to its
\* channel with an alpha of the configuration, the call's target
\* dimensionality, and the delays of the configuration; coef_ stacks exactly
\* these models.
C3_FitOverwritesDerivedState ==
  (Called("fit") /\ IsOk(result.out)) =>
    LET d == result.args
    IN  /\ self.ndim_y_ = d.y[1].nd
        /\ Len(self.models_) = Len(d.ch)
        /\ \A k \in 1..Len(d.ch) :
             /\ self.models_[k].y = d.ch[k]
             /\ \E ai \in 1..Len(self.alpha) : self.models_[k].alpha = self.alpha[ai]
             /\ self.models_[k].coef_shape[3] = n_delays(self) - 1
        /\ self.delays_ = times_to_delays(self)
        /\ self.valid_samples_ = delays_to_slice(self.delays_)
        /\ IsOk(coef(self))
        /\ coef(self).value.shape[1] = Len(d.ch)
        /\ \A k \in 1..Len(d.ch) : coef(self).value.filters[k].y = d.ch[k]

\* C3 witness: a second successful fit() on targets of fewer channels and of
\* another dimensionality than the fit before it.
C3_Witness ==
  /\ Called("fit") /\ IsOk(result.out)
  /\ hasattr(result.pre, "models_")
  /\ Len(result.pre.models_) > Len(self.models_)
  /\ result.pre.ndim_y_ # self.ndim_y_

\* C4: once a fit() has succeeded, a predict() or score() call, failing or
\* not, leaves the instance as it was: still holding models_ and ndim_y_,
\* with the same per-channel models and the same ndim_y_.
C4_PredictScoreKeepState ==
  (everFit /\ (Called("predict") \/ Called("score"))) =>
    /\ hasattr(self, "models_") /\ hasattr(self, "ndim_y_")
    /\ self.models_ = result.pre.models_
    /\ self.ndim_y_ = result.pre.ndim_y_
    /\ self = result.pre

\* C4 witness: a score() call that fails on a fitted instance.
C4_Witness ==
  /\ everFit /\ Called("score") /\ IsRaise(result.out)
  /\ self.models_ # <<>>

\* C5: a constructor call with tmin >= tmax raises the configuration error
\* (ValueError of line 76) and no instance comes into being.
C5_BadTimesRejected ==
  (Called("init") /\ result.args.tmin >= result.args.tmax) =>
    /\ IsRaise(result.out) /\ result.out.exc = "ValueError"
    /\ result.out.at = "trf.py:76"
    /\ self = NoInstance

\* C5 witness: tmin = tmax rejected, with a multi-alpha list and p > 0.5.
C5_Witness ==
  /\ Called("init") /\ result.args.tmin = result.args.tmax
  /\ result.args.alpha = AlphaList(<<0, 1>>)
  /\ 2 * result.args.xval_test_portion > PDen
  /\ IsRaise(result.out)

MultiAlpha(a) == a.kind = "none" \/ (a.kind = "list" /\ Len(a.v) > 1)

\* C6: a constructor call with more than one alpha candidate (the default
\* grid included) and xval_test_portion > 0.5 raises the configuration error
\* and yields no instance; with a single alpha (scalar or one-element list)
\* and tmin < tmax every xval_test_portion is accepted.
C6_PortionCheckedForMultiAlphaOnly ==
  Called("init") =>
    LET a == result.args
    IN  /\ (MultiAlpha(a.alpha) /\ 2 * a.xval_test_portion > PDen) =>
             (/\ IsRaise(result.out) /\ result.out.exc = "ValueError"
              /\ self = NoInstance)
        /\ (~MultiAlpha(a.alpha) /\ a.tmin < a.tmax) =>
             (/\ IsOk(result.out) /\ self # NoInstance
              /\ self.xval_test_portion = a.xval_test_portion
              /\ Len(self.alpha) = 1)

\* C6 witness: the default grid with p > 0.5 is rejected at line 93.
C6_Witness ==
  /\ Called("init") /\ result.args.alpha = AlphaNone
  /\ 2 * result.args.xval_test_portion > PDen
  /\ IsRaise(result.out) /\ result.out.at = "trf.py:93"

\* C7: with more than one alpha candidate and a test fraction p <= 0, no
\* fit() on targets of at least one channel completes: every such call ends
\* in an exception, before any channel is refitted with a selected alpha.
C7_NonPositivePortionNeverFits ==
  (/\ Called("fit")
   /\ Len(result.pre.alpha) > 1
   /\ result.pre.xval_test_portion <= 0)
    => (IsRaise(result.out) /\ (hasattr(self, "models_") => self.models_ = <<>>))

\* C7 witness: with p < 0 the fold generator yields no fold and fit() ends
\* in the TypeError of line 407, on data that a positive p would have fitted.
C7_Witness ==
  /\ Called("fit")
  /\ Len(result.pre.alpha) > 1
  /\ result.pre.xval_test_portion < 0
  /\ IsRaise(result.out) /\ result.out.at = "trf.py:407"

\* C8: on an instance holding at least one fitted channel, predict() returns
\* one array per input trial, in order, of the trial's time length and of
\* shape (time, n_outputs) for 2-D targets, (time, n_outputs, NFeatY) for
\* 3-D targets, n_outputs being the number of channels fitted.
C8_PredictShapes ==
  (/\ Called("predict")
   /\ hasattr(result.pre, "models_")
   /\ result.pre.models_ # <<>>) =>
    LET xl == result.args
        n == Len(result.pre.models_)
    IN  /\ IsOk(result.out)
        /\ Len(result.out.value) = Len(xl)
        /\ \A i \in 1..Len(xl) :
             result.out.value[i] =
               IF result.pre.ndim_y_ = 2 THEN <<xl[i], n>> ELSE <<xl[i], n, NFeatY>>

\* C8 witness: two trials of different lengths predicted by a model fitted
\* on 3-D targets of two channels.
C8_Witness ==
  /\ Called("predict") /\ IsOk(result.out)
  /\ everFit /\ self.ndim_y_ = 3 /\ Len(self.models_) = 2
  /\ Len(result.args) = 2 /\ result.args[1] # result.args[2]

\* the per-trial scores of channel k in a score() call
TrialScores(o, d, k) == [i \in 1..Len(d.X) |-> TrialScore(o.models_[k], d, k, i)]

RECURSIVE Dot(_, _)
Dot(a, b) == IF a = <<>> THEN 0 ELSE Head(a) * Head(b) + Dot(Tail(a), Tail(b))

\* C9: a score() that returns hands back one entry per fitted channel; entry
\* k is sum(T_i * s_ki) / sum(T_i) over the trials when
\* weight_trial_duration is true, and sum(s_ki) / n_trials when it is false.
C9_ScoreIsWeightedAverage ==
  (Called("score") /\ IsOk(result.out)) =>
    LET d == result.args.data
        v == result.out.value
    IN  /\ Len(v) = Len(self.models_)
        /\ \A k \in 1..Len(v) :
             IF result.args.weight_trial_duration
             THEN v[k].n * SumSeq(d.X) = v[k].d * Dot(d.X, TrialScores(self, d, k))
             ELSE v[k].n * Len(d.X) = v[k].d * SumSeq(TrialScores(self, d, k))

\* C9 witness: a weighted score over two trials of different lengths whose
\* weighted and unweighted averages differ.
C9_Witness ==
  /\ Called("score") /\ IsOk(result.out)
  /\ result.args.weight_trial_duration
  /\ LET d == result.args.data
         v == result.out.value
     IN  /\ Len(d.X) = 2 /\ d.X[1] # d.X[2]
         /\ v[1].n * Len(d.X) # v[1].d * SumSeq(TrialScores(self, d, 1))

\* C10: on an instance holding at least one fitted channel, score() given a
\* target trial, at any position, whose number of dimensions differs from
\* ndim_y_ raises a validation error (the ValueError of line 372, or that of
\* the trial-count check) and returns no score.
C10_ScoreRejectsWrongNdim ==
  (/\ Called("score")
   /\ hasattr(result.pre, "models_")
   /\ result.pre.models_ # <<>>
   /\ result.args.data.src # "badfield"
   /\ \E i \in 1..Len(result.args.data.y) :
        result.args.data.y[i].nd # result.pre.ndim_y_) =>
    /\ IsRaise(result.out) /\ result.out.exc = "ValueError"
    /\ result.out.at \in {"trf.py:372", "utils.py"}

\* C10 witness: the first target trial has the fitted dimensionality, the
\* second has not, and line 372 raises.
C10_Witness ==
  /\ Called("score") /\ IsRaise(result.out) /\ result.out.at = "trf.py:372"
  /\ result.pre.models_ # <<>>
  /\ Len(result.args.data.y) = 2
  /\ result.args.data.y[1].nd = result.pre.ndim_y_
  /\ result.args.data.y[2].nd # result.pre.ndim_y_

\* the data of a fit() or score() call
CallData == IF result.op = "score" THEN result.args.data ELSE result.args

\* C11: fit(), and score() on an instance that passes the state guard, given
\* resolvable data whose number of predictor trials differs from the number
\* of target trials, in either direction, raise the validation error of the
\* trial-count check and return nothing.
C11_TrialCountMismatchRejected ==
  (/\ Called("fit") \/ (Called("score") /\ hasattr(result.pre, "models_"))
   /\ CallData.src # "badfield"
   /\ Len(CallData.X) # Len(CallData.y)) =>
    /\ IsRaise(result.out) /\ result.out.exc = "ValueError"
    /\ result.out.at = "utils.py"

\* C11 witness: score() on a fitted instance with one predictor trial and
\* two target trials, the surplus one of the fitted dimensionality.
C11_Witness ==
  /\ Called("score") /\ everFit /\ result.pre.models_ # <<>>
  /\ Len(CallData.X) < Len(CallData.y)
  /\ \A i \in 1..Len(CallData.y) : CallData.y[i].nd = result.pre.ndim_y_
  /\ IsRaise(result.out) /\ result.out.at = "utils.py"

\* C12: a coef_ access that returns hands back an array whose last axis is
\* the delay axis, of length n_delays - 1, and whose shape is
\* (n, NFeat, n_delays - 1) for 2-D targets and (n, NFeatY, NFeat,
\* n_delays - 1) for 3-D targets, n being the number of channels held; and
\* right after a successful fit() n is the number of target channels and
\* slice k is the filter fitted to target channel k.
C12_CoefShape ==
  /\ (Called("coef_") /\ IsOk(result.out)) =>
       LET sh == result.out.value.shape
           n == Len(self.models_)
       IN  /\ sh[Len(sh)] = n_delays(self) - 1
           /\ sh = IF self.ndim_y_ = 2
                   THEN <<n, NFeat, n_delays(self) - 1>>
                   ELSE <<n, NFeatY, NFeat, n_delays(self) - 1>>
  /\ (Called("fit") /\ IsOk(result.out)) =>
       /\ IsOk(coef(self))
       /\ Len(coef(self).value.filters) = Len(result.args.ch)
       /\ coef(self).value.shape[1] = Len(result.args.ch)
       /\ \A k \in 1..Len(result.args.ch) :
            coef(self).value.filters[k].y = result.args.ch[k]

\* C12 witness: coef_ read after a fit on 3-D targets of two channels.
C12_Witness ==
  /\ Called("coef_") /\ IsOk(result.out) /\ everFit
  /\ self.ndim_y_ = 3 /\ Len(self.models_) = 2
  /\ n_delays(self) > 2

\* C13 (as claimed): for 3-D targets the coefficient tensor has axis order
\* (n_outputs, n_features, n_output_features, n_delays - 1).
C13_FeatureAxisBeforeOutputFeatureAxis ==
  (Called("coef_") /\ IsOk(result.out) /\ self.ndim_y_ = 3) =>
    result.out.value.shape = <<Len(self.models_), NFeat, NFeatY, n_delays(self) - 1>>

\* C13 (amended): for 3-D targets the coefficient tensor has four axes, the
\* output-feature axis (length NFeatY) second and the predictor-feature axis
\* (length NFeat) third: (n_outputs, n_output_features, n_features, delays).
C13_OutputFeatureAxisBeforeFeatureAxis ==
  (Called("coef_") /\ IsOk(result.out) /\ self.ndim_y_ = 3) =>
    /\ Len(result.out.value.shape) = 4
    /\ result.out.value.shape[2] = NFeatY
    /\ result.out.value.shape[3] = NFeat

\* C13 witness: coef_ read on a model fitted to 3-D targets, the two feature
\* counts being different.
C13_Witness ==
  /\ Called("coef_") /\ IsOk(result.out) /\ self.ndim_y_ = 3
  /\ NFeat # NFeatY
  /\ result.out.value.shape[2] # result.out.value.shape[3]

\* tmin * sfreq and tmax * sfreq are whole numbers of samples
WholeSamples(o) == o.tmin % TDen = 0 /\ o.tmax % TDen = 0

\* C14 (as claimed): the number of delays of a fit is
\* round((tmax - tmin) * sfreq) + 1.
C14_DelaysFromWindowLength ==
  (Called("fit") /\ IsOk(result.out)) =>
    Len(self.delays_) = RoundHalfEven(self.tmax - self.tmin, TDen) + 1

\* C14 (amended): the delays of a fit are the consecutive integers from
\* round(tmin * sfreq) to round(tmax * sfreq), each end rounded on its own
\* (ties to even), so their number is round(tmax * sfreq) -
\* round(tmin * sfreq) + 1; that is round((tmax - tmin) * sfreq) + 1 when
\* both ends are whole numbers of samples.
C14_DelaysFromRoundedEnds ==
  (Called("fit") /\ IsOk(result.out)) =>
    LET lo == RoundHalfEven(self.tmin, TDen)
        hi == RoundHalfEven(self.tmax, TDen)
    IN  /\ Len(self.delays_) = hi - lo + 1
        /\ \A i \in 1..Len(self.delays_) : self.delays_[i] = lo + i - 1
        /\ WholeSamples(self) =>
             Len(self.delays_) = RoundHalfEven(self.tmax - self.tmin, TDen) + 1

\* C14 witness: a fit whose two ends lie half-way between samples and whose
\* number of delays is not round((tmax - tmin) * sfreq) + 1.
C14_Witness ==
  /\ Called("fit") /\ IsOk(result.out)
  /\ (2 * self.tmin) % TDen = 0 /\ (2 * self.tmax) % TDen = 0
  /\ ~WholeSamples(self)
  /\ Len(self.delays_) # RoundHalfEven(self.tmax - self.tmin, TDen) + 1

Elems(q) == {q[i] : i \in 1..Len(q)}

Increasing(q) == \A i \in 1..(Len(q) - 1) : q[i] < q[i + 1]

\* the block size of a generator call
Block == Floor(result.args.T * result.args.p, PDen)

\* C16: for data of T samples and a fraction p with floor(T * p) >= 1, the
\* fold generator returns floor((T - block) / block) + 1 folds, each with a
\* test block of block = floor(T * p) samples.
C16_FoldCount ==
  (Called("xval_time_splits") /\ Block >= 1) =>
    /\ IsOk(result.out)
    /\ Len(result.out.value) = Floor(result.args.T - Block, Block) + 1
    /\ \A i \in 1..Len(result.out.value) : Len(result.out.value[i].test) = Block

\* C16 witness: at least three folds of at least two samples, with samples
\* left over that fill no block.
C16_Witness ==
  /\ Called("xval_time_splits") /\ IsOk(result.out)
  /\ Block >= 2 /\ result.args.T % Block # 0
  /\ Len(result.out.value) >= 3

\* C17: fold i (0-based) of the generator has as test block exactly the
\* samples i * block, ..., (i + 1) * block - 1; the test blocks of two folds
\* share no sample; and the train set of a fold is every other sample of the
\* data, once each, in the original order.
C17_FoldsPartition ==
  (Called("xval_time_splits") /\ IsOk(result.out)) =>
    LET folds == result.out.value
        T == result.args.T
    IN  /\ \A j \in 1..Len(folds) :
             /\ folds[j].test = [q \in 1..Block |-> (j - 1) * Block + q - 1]
             /\ Increasing(folds[j].train)
             /\ Elems(folds[j].train) \cap Elems(folds[j].test) = {}
             /\ Elems(folds[j].train) \cup Elems(folds[j].test) = 0..(T - 1)
             /\ Len(folds[j].train) + Len(folds[j].test) = T
        /\ \A j, h \in 1..Len(folds) :
             j # h => Elems(folds[j].test) \cap Elems(folds[h].test) = {}

\* C17 witness: a middle fold, whose train set lies on both sides of its
\* test block, with samples left over that are in no test block.
C17_Witness ==
  /\ Called("xval_time_splits") /\ IsOk(result.out)
  /\ Len(result.out.value) >= 3
  /\ result.args.T > Len(result.out.value) * Block
  /\ LET f == result.out.value[2]
     IN  f.train[1] < f.test[1] /\ f.train[Len(f.train)] > f.test[Len(f.test)]

\* the events of one kind of channel k, and those of one alpha among them
EvOf(log, ev, k) == SelectSeq(log, LAMBDA e : e.ev = ev /\ e.ch = k)
EvOfAlpha(log, ev, k, ai) == SelectSeq(log, LAMBDA e : e.ev = ev /\ e.ch = k /\ e.ai = ai)

RECURSIVE SumV(_)
SumV(q) == IF q = <<>> THEN 0 ELSE Head(q).v + SumV(Tail(q))

\* the folds of the data of a fit() call
CallFolds == xval_time_splits(SumSeq(result.args.X), result.pre.xval_test_portion)

\* C18: after a successful fit() with more than one alpha candidate, every
\* channel has been refitted once, with the candidate c whose scores, one
\* per fold, have the greatest sum (hence the greatest mean) among the
\* candidates, and every candidate before c in the list has a strictly
\* smaller one.
C18_ChosenAlphaMaximisesMeanScore ==
  (Called("fit") /\ IsOk(result.out) /\ Len(result.pre.alpha) > 1) =>
    \A k \in 1..Len(self.models_) :
      LET na == Len(self.alpha)
          m == [ai \in 1..na |-> SumV(EvOfAlpha(result.log, "score", k, ai))]
          refits == EvOf(result.log, "refit", k)
      IN  /\ Len(refits) = 1
          /\ refits[1].ai \in 1..na
          /\ refits[1].v = self.alpha[refits[1].ai]
          /\ self.models_[k].alpha = self.alpha[refits[1].ai]
          /\ \A ai \in 1..na :
               /\ Len(EvOfAlpha(result.log, "score", k, ai)) = Len(CallFolds.value)
               /\ m[ai] <= m[refits[1].ai]
               /\ ai < refits[1].ai => m[ai] < m[refits[1].ai]

\* C18 witness: one channel is refitted with the second candidate, whose
\* mean score is strictly the greatest, and another channel, whose
\* candidates score equally, with the first.
C18_Witness ==
  /\ Called("fit") /\ IsOk(result.out) /\ Len(result.pre.alpha) > 1
  /\ \E k, h \in 1..Len(self.models_) :
       /\ self.models_[k].alpha = self.alpha[2]
       /\ SumV(EvOfAlpha(result.log, "score", k, 1)) < SumV(EvOfAlpha(result.log, "score", k, 2))
       /\ self.models_[h].alpha = self.alpha[1]
       /\ SumV(EvOfAlpha(result.log, "score", h, 1)) = SumV(EvOfAlpha(result.log, "score", h, 2))

\* the events of cross-validation
CvKinds == {"splits", "cov", "solve", "score"}

\* C19: a fit() on an instance whose alpha is a single candidate starts no
\* fold generator, computes no per-fold covariance and solves and scores no
\* candidate; if it succeeds, all it has done in the channel loop is one
\* refit per channel, in channel order, with that alpha.
C19_SingleAlphaSkipsCrossValidation ==
  (Called("fit") /\ Len(result.pre.alpha) = 1) =>
    /\ \A i \in 1..Len(result.log) : result.log[i].ev \notin CvKinds
    /\ IsOk(result.out) =>
         /\ Len(result.log) = Len(result.args.ch)
         /\ \A k \in 1..Len(result.args.ch) :
              /\ result.log[k] = Ev("refit", k, 0, 1, NoCov, NoBlk, result.pre.alpha[1])
              /\ self.models_[k].alpha = result.pre.alpha[1]

\* C19 witness: a successful fit of two channels with a scalar alpha.
C19_Witness ==
  /\ Called("fit") /\ IsOk(result.out) /\ Len(result.pre.alpha) = 1
  /\ Len(result.args.ch) = 2 /\ Len(result.log) = 2

\* (fold, alpha) of event a comes before that of event b
FoldMajorBefore(a, b) == a.f < b.f \/ (a.f = b.f /\ a.ai < b.ai)

\* C20: in the cross-validation of a channel the statistics of a fold are
\* computed once, from the train set of that fold (the data without the
\* fold's test block), before any solve of the fold; every solve and score
\* of the fold reads these statistics; and the solves run fold by fold and,
\* within a fold, alpha by alpha.  After a successful fit every fold of
\* every channel has its statistics and one solve per alpha.
C20_CovarianceOncePerFoldBeforeSolves ==
  Called("fit") =>
    LET log == result.log
        na == Len(result.pre.alpha)
    IN  /\ \A i, j \in 1..Len(log) :
             (log[i].ev = "cov" /\ log[j].ev = "cov" /\ i # j) =>
               <<log[i].ch, log[i].f>> # <<log[j].ch, log[j].f>>
        /\ \A i \in 1..Len(log) :
             log[i].ev = "cov" =>
               /\ log[i].cov = <<log[i].ch, log[i].f>>
               /\ log[i].f \in 1..Len(CallFolds.value)
               /\ log[i].blk = <<CallFolds.value[log[i].f].start,
                                  CallFolds.value[log[i].f].stop>>
        /\ \A j \in 1..Len(log) :
             log[j].ev \in {"solve", "score"} =>
               /\ log[j].cov = <<log[j].ch, log[j].f>>
               /\ \E i \in 1..(j - 1) :
                    /\ log[i].ev = "cov" /\ log[i].cov = log[j].cov
                    /\ log[i].blk = log[j].blk
        /\ \A i, j \in 1..Len(log) :
             (/\ log[i].ev = "solve" /\ log[j].ev = "solve"
              /\ log[i].ch = log[j].ch /\ i < j) => FoldMajorBefore(log[i], log[j])
        /\ (IsOk(result.out) /\ na > 1) =>
             \A k \in 1..Len(result.args.ch) :
               /\ Len(EvOf(log, "cov", k)) = Len(CallFolds.value)
               /\ \A ai \in 1..na :
                    Len(EvOfAlpha(log, "solve", k, ai)) = Len(CallFolds.value)

\* C20 witness: a successful fit that cross-validated two channels over
\* more than two folds.
C20_Witness ==
  /\ Called("fit") /\ IsOk(result.out) /\ Len(result.pre.alpha) > 1
  /\ Len(result.args.ch) = 2
  /\ Len(EvOf(result.log, "cov", 2)) > 2
  /\ Len(EvOf(result.log, "solve", 2)) = 2 * Len(EvOf(result.log, "cov", 2))

\* the data d with, as target channels, its channels ks in that order
WithChannels(d, ks) == [d EXCEPT !.ch = [j \in 1..Len(ks) |-> d.ch[ks[j]]]]

\* the channel numbers n, ..., 1
Downward(n) == [j \in 1..n |-> n + 1 - j]

\* the lines of the channel loop at which a fit() can end with an exception
LoopLines == {"trf.py:230", "trf.py:259", "trf.py:278", "trf.py:407", "trf.py:417"}

\* the call has stored in slot k, with the alpha it chose for channel k, what
\* the fit `alone` of that channel alone has stored, with the same alpha
SameAsAlone(k, alone) ==
  /\ IsOk(alone.out)
  /\ alone.self.models_ = <<self.models_[k]>>
  /\ Len(EvOf(result.log, "refit", k)) = 1
  /\ EvOf(result.log, "refit", k)[1].ai = EvOf(alone.log, "refit", 1)[1].ai

\* the call has stored, channel by channel, what the fit `other` of the
\* same channels in the opposite order has stored
SameAsDownward(other) ==
  /\ IsOk(other.out)
  /\ Len(other.self.models_) = Len(self.models_)
  /\ \A k \in 1..Len(self.models_) :
       other.self.models_[Len(self.models_) + 1 - k] = self.models_[k]

\* C21: the alpha chosen and the filter stored for output channel k are
\* those of a fit of channel k alone with the same configuration and the
\* same predictor, whatever the other channels hold and wherever channel k
\* stands among them (this holds of the channels stored by a fit() that
\* fails in a later channel, too); a fit of the same channels in the
\* opposite order stores the same filter for each of them; and two channels
\* of identical targets get identical filters.
C21_ChannelResultIsItsOwn ==
  (Called("fit") /\ (IsOk(result.out) \/ result.out.at \in LoopLines)) =>
    /\ \A k \in 1..Len(self.models_) :
         SameAsAlone(k, fit(result.pre, WithChannels(result.args, <<k>>)))
    /\ \A k, h \in 1..Len(self.models_) :
         result.args.ch[k] = result.args.ch[h] => self.models_[k] = self.models_[h]
    /\ IsOk(result.out) =>
         SameAsDownward(fit(result.pre,
                            WithChannels(result.args, Downward(Len(result.args.ch)))))

\* C21 witness: a successful fit that cross-validated two channels of
\* different targets and chose the second alpha for the first channel and
\* the first alpha for the second.
C21_Witness ==
  /\ Called("fit") /\ IsOk(result.out) /\ Len(result.pre.alpha) > 1
  /\ Len(self.models_) = 2
  /\ result.args.ch[1] # result.args.ch[2]
  /\ self.models_[1].alpha = self.alpha[2]
  /\ self.models_[2].alpha = self.alpha[1]

\* the inputs of the call as the caller holds them after it: the same lists,
\* or the same container and field names, with the contents they have now
SameInputs == [result.args EXCEPT !.ch = result.held]

\* C22 (as claimed): after a successful fit(), a second fit() on the same
\* instance with the same caller-held inputs (the same lists, or the same
\* container and field names) succeeds and yields the same coefficients.
C22_FitTwiceSameCoefficients ==
  (Called("fit") /\ IsOk(result.out)) =>
    /\ IsOk(fit(self, SameInputs).out)
    /\ coef(fit(self, SameInputs).self) = coef(self)

\* a fit() call whose predictor has a singular feature covariance, on an
\* instance that has alpha = 0 as a candidate
SingularCall ==
  /\ Called("fit")
  /\ result.args.feat # "independent"
  /\ \E ai \in 1..Len(result.pre.alpha) : result.pre.alpha[ai] = 0

\* C24 (as claimed): with alpha = 0 and a singular feature covariance the
\* solving fails, and fit() ends with that error.
C24_SingularCovarianceRaises ==
  SingularCall => IsRaise(result.out)

\* C24 (amended): with alpha = 0 and a singular feature covariance (a
\* duplicated or an all-zero predictor feature) solving does not fail: fit()
\* ends as the same call ends on a predictor of regular covariance, and where
\* it succeeds it has stored, for every channel refitted with alpha = 0, the
\* least-squares solution of least norm, in the shape of any stored filter.
C24_SingularCovarianceLeastNorm ==
  SingularCall =>
    /\ result.out = fit(result.pre, [result.args EXCEPT !.feat = "independent"]).out
    /\ IsOk(result.out) =>
         /\ Len(self.models_) = Len(result.args.ch)
         /\ \A k \in 1..Len(self.models_) :
              /\ self.models_[k].sol =
                   IF self.models_[k].alpha = 0 THEN "least_norm" ELSE "unique"
              /\ self.models_[k].coef_shape[2] = NFeat
              /\ self.models_[k].coef_shape[3] = n_delays(self) - 1
         /\ IsOk(coef(self))

\* C24 witness: a fit on a predictor with a duplicated feature that
\* cross-validated alpha = 0 against another alpha, refitted with alpha = 0
\* and stored the least-norm solution.
C24_Witness ==
  /\ SingularCall /\ IsOk(result.out)
  /\ result.args.feat = "duplicated"
  /\ Len(result.pre.alpha) > 1
  /\ self.models_[1].alpha = 0
  /\ self.models_[1].sol = "least_norm"

\* C25 (as claimed): in a fit() that cross-validates, every candidate is
\* scored with intercept 0 when fit_intercept is off; when it is on, the
\* fit() succeeds wherever the same call succeeds with fit_intercept off,
\* and every candidate is scored with the intercept made from the offsets of
\* its own fold and from its own coefficients.
C25_CandidateInterceptIsItsOwn ==
  (Called("fit") /\ Len(result.pre.alpha) > 1) =>
    /\ ~result.pre.fit_intercept =>
         \A i \in 1..Len(result.log) :
           result.log[i].ev = "score" =>
             result.log[i].intercept = [offsets |-> NoCov, coef |-> "none"]
    /\ result.pre.fit_intercept =>
         /\ IsOk(fit([result.pre EXCEPT !.fit_intercept = FALSE], result.args).out)
              => IsOk(result.out)
         /\ \A i \in 1..Len(result.log) :
              result.log[i].ev = "score" =>
                result.log[i].intercept = [offsets |-> result.log[i].cov, coef |-> "candidate"]

\* C26 (as claimed): every candidate that predicts a test block has
\* coefficients for every predictor feature and for every delay but the
\* last, which is the shape of the filter stored for its channel.
C26_CandidateTrimmedLikeStored ==
  Called("fit") =>
    \A i \in 1..Len(result.log) :
      result.log[i].ev = "score" =>
        /\ result.log[i].coef_shape[2] = NFeat
        /\ result.log[i].coef_shape[3] = n_delays(result.pre) - 1
        /\ IsOk(result.out) =>
             result.log[i].coef_shape = self.models_[result.log[i].ch].coef_shape

\* C27 (as claimed): after a fit() or a score(), however it ends, the target
\* arrays the caller supplied, as lists or through the container and field
\* names, hold what they held before the call, and so does the container.
C27_CallerDataUnchanged ==
  (Called("fit") \/ Called("score")) =>
    /\ result.held = CallData.ch
    /\ CallData.src = "field" => outstruct = CallData.ch

\* C28: for a predictor and a target of the same number T of samples and a
\* fraction p with 0 < p <= 0.5 and floor(T * p) >= 1, the two fold
\* generators of the fold loop yield the same number of folds, the loop runs
\* over all of them, they are at least 2, and in every turn the predictor
\* fold and the target fold have the same test samples and the same train
\* samples.
C28_GeneratorsInStep ==
  (/\ Called("zip_splits")
   /\ result.args.Tx = result.args.Ty
   /\ result.args.p > 0 /\ 2 * result.args.p <= PDen
   /\ Floor(result.args.Tx * result.args.p, PDen) >= 1) =>
    /\ IsOk(result.out)
    /\ IsOk(xval_time_splits(result.args.Tx, result.args.p))
    /\ IsOk(xval_time_splits(result.args.Ty, result.args.p))
    /\ Len(xval_time_splits(result.args.Tx, result.args.p).value)
         = Len(xval_time_splits(result.args.Ty, result.args.p).value)
    /\ Len(result.out.value) = Len(xval_time_splits(result.args.Tx, result.args.p).value)
    /\ Len(result.out.value) >= 2
    /\ \A j \in 1..Len(result.out.value) :
         /\ result.out.value[j].X.test = result.out.value[j].y.test
         /\ result.out.value[j].X.train = result.out.value[j].y.train
         /\ result.out.value[j].X.test = xval_time_splits(result.args.Tx, result.args.p).value[j].test

\* C28 witness: the fraction 0.5 on an odd number of samples: two folds and
\* a sample left over that is in no test block.
C28_Witness ==
  /\ Called("zip_splits") /\ IsOk(result.out)
  /\ result.args.Tx = result.args.Ty
  /\ 2 * result.args.p = PDen
  /\ result.args.Tx % 2 = 1 /\ result.args.Tx >= 5
  /\ Len(result.out.value) = 2
  /\ Len(result.out.value[2].X.train) = Len(result.out.value[2].X.test) + 1

\* the samples from, ..., to - 1
Samples(r) == {q \in r.from..(r.to - 1) : TRUE}

\* C29: a fit() that gets through the taper loop has tapered every target
\* trial by itself; in a trial of T >= 2k samples, k = int((tmax - tmin) *
\* sfreq), the samples written are the first k and the last k of that trial,
\* 2k samples in all, and no other; and no predictor sample is written.
C29_TaperTouchesTrialEndsOnly ==
  Called("fit") =>
    /\ IsOk(result.out) => Len(result.taper) = Len(result.args.y)
    /\ \A i \in 1..Len(result.taper) :
         LET k == Trunc(result.pre.tmax - result.pre.tmin, TDen)
             T == result.args.y[i].T
             t == result.taper[i]
         IN  /\ Samples(t.x) = {}
             /\ T >= 2 * k =>
                  /\ Samples(t.start) = 0..(k - 1)
                  /\ Samples(t.end) = (T - k)..(T - 1)
                  /\ Samples(t.start) \cap Samples(t.end) = {}
                  /\ Cardinality(Samples(t.start) \cup Samples(t.end)) = 2 * k
                  /\ Samples(t.start) \cup Samples(t.end) \subseteq 0..(T - 1)

\* C29 witness: a successful fit on two trials of different lengths, each at
\* least twice the taper length, the longer one with samples left untouched
\* between its tapered ends.
C29_Witness ==
  /\ Called("fit") /\ IsOk(result.out)
  /\ Len(result.taper) = 2
  /\ result.args.y[1].T # result.args.y[2].T
  /\ \A i \in 1..2 :
       /\ result.args.y[i].T >= 2 * (result.taper[i].start.to - result.taper[i].start.from)
       /\ result.taper[i].start.to > result.taper[i].start.from
  /\ \E i \in 1..2 : result.taper[i].start.to < result.taper[i].end.from

====
